---- MODULE Spec2Model ----
(***************************************************************************)
(* Model of the open-loop motion controller of src/robotek.cpp (ESP32 +    *)
(* L298N): setup, driveForward, rotate, stopMotors and speedPercentToPwm.  *)
(*                                                                         *)
(* Every digitalWrite / ledcWrite of the source is one step, so that the   *)
(* states between two pin writes are states of the model.  Float           *)
(* arguments are exact rationals <<num, den>>; the argument sets hold only *)
(* values whose float product with the calibration constant is decided     *)
(* the same way in float and in exact arithmetic (integers, and dyadic     *)
(* fractions for the distance).                                            *)
(***************************************************************************)
EXTENDS Integers, Naturals, Sequences, FiniteSets, TLC

VARIABLES
    pc,         \* position of the single thread of control
    in1, in2,   \* levels of the left motor's direction lines IN1, IN2
    in3, in4,   \* levels of the right motor's direction lines IN3, IN4
    dutyL,      \* duty of PWM_CHANNEL_LEFT  (ENA)
    dutyR,      \* duty of PWM_CHANNEL_RIGHT (ENB)
    clock,      \* millis(): unsigned 32-bit millisecond clock
    start,      \* local `start` of the running command
    runTimeMs,  \* local `runTimeMs` of the running command
    pwmVal,     \* local `pwmVal` of the running command
    call,       \* the call in progress; at "returned", the call that just returned
    writes,     \* history: pin and duty writes made so far by that call
    pctA, pctB, \* arguments of two evaluations of speedPercentToPwm
    pwmA, pwmB, \* their results
    waited,     \* history: milliseconds slept in the polling loop of the call
    loopAt,     \* the statement of loop() that comes next
    issued,     \* history: the commands loop() has called, in order
    idleTurns,  \* turns of the closing while (true) of loop() taken so far
    trig,       \* sonar: level of TRIG_PIN
    duration,   \* sonar: local `duration` of measureDistanceCm
    distance,   \* sonar: the value measureDistanceCm returned, a rational
    report      \* sonar: what loop() printed for the last reading

vars == <<pc, in1, in2, in3, in4, dutyL, dutyR, clock, start, runTimeMs,
          pwmVal, call, writes, pctA, pctB, pwmA, pwmB, waited,
          loopAt, issued, idleTurns, trig, duration, distance, report>>

motorVars == <<in1, in2, in3, in4, dutyL, dutyR>>
demoVars == <<loopAt, issued, idleTurns>>
sonarVars == <<trig, duration, distance, report>>
pwmFnVars == <<pctA, pctB, pwmA, pwmB, demoVars, sonarVars>>

-----------------------------------------------------------------------------
(* Program constants *)

LOW == "LOW"
HIGH == "HIGH"

\* float ms_per_cm = 80.0
ms_per_cm == 80

\* float ms_per_degree = 8.4, as the rational 84 / 10
ms_per_degree_num == 84
ms_per_degree_den == 10

\* delay(5) in the polling loops
PollDelayMs == 5

\* delay(1000) in loop()
LoopDelayMs == 1000

\* 2^PWM_RESOLUTION - 1: the out_max handed to map()
PWM_MAX == 255

\* the in_max handed to constrain() and map()
PERCENT_MAX == 100

\* pulseIn(ECHO_PIN, HIGH, 30000UL): the timeout in microseconds
PULSE_TIMEOUT_US == 30000

\* unsigned long on the ESP32 is 32 bits wide.  A value is kept as its two
\* 16-bit halves <<high, low>>, so that the arithmetic is exactly mod 2^32.
HALF == 2^16

ULong(n) == <<(n \div HALF) % HALF, n % HALF>>

\* x + n mod 2^32, for a small n >= 0
ULongAdd(x, n) == <<(x[1] + (x[2] + n) \div HALF) % HALF, (x[2] + n) % HALF>>

\* x - y mod 2^32
ULongSub(x, y) ==
    <<(x[1] - y[1] - (IF x[2] < y[2] THEN 1 ELSE 0)) % HALF, (x[2] - y[2]) % HALF>>

ULongLess(x, y) == x[1] < y[1] \/ (x[1] = y[1] /\ x[2] < y[2])

-----------------------------------------------------------------------------
(* Bounds of the model *)

\* distances handed to driveForward: whole centimetres -MaxDistCm .. MaxDistCm
MaxDistCm == 30

\* angles handed to rotate: whole degrees -MaxAngleDeg .. MaxAngleDeg
MaxAngleDeg == 90

\* speedPercentToPwm is evaluated on -MaxOver .. PERCENT_MAX + MaxOver
MaxOver == 20

\* the clock at the start of a command is taken up to MaxLead ms before the wrap
MaxLead == 1

\* turns of the closing while (true) of loop() that are followed
MaxIdleTurns == 3

-----------------------------------------------------------------------------
(* Arguments the caller may pass *)

\* float distance_cm: whole centimetres, and dyadic fractions whose product
\* with ms_per_cm is exact in float and falls on or off a rounding tie
DistArgs ==
    {<<k, 1>> : k \in (-MaxDistCm)..MaxDistCm} \cup {<<1, 32>>, <<1, 64>>, <<3, 32>>}

\* float angle_deg: whole degrees
AngleArgs == {<<k, 1>> : k \in (-MaxAngleDeg)..MaxAngleDeg}

\* int speed_percent
SpeedArgs == {-1, 0, 50, 60, PERCENT_MAX + 1}

\* millis() when the caller goes on to its next command
StartClocks == {ULong(0)} \cup {ULongSub(ULong(0), ULong(7 * k)) : k \in 1..MaxLead}

NoCall == [fn |-> "none", mag |-> <<0, 1>>, speed |-> 0]

-----------------------------------------------------------------------------
(* Arithmetic of the source *)

\* C integer division truncates toward zero
CDiv(a, b) == IF a >= 0 THEN a \div b ELSE -((-a) \div b)

\* constrain(amt, low, high) of Arduino.h
constrain(amt, low, high) ==
    IF amt < low THEN low ELSE IF amt > high THEN high ELSE amt

\* map(x, in_min, in_max, out_min, out_max) of the Arduino core: integer
\* arithmetic, the fractional remainder is truncated
map(x, in_min, in_max, out_min, out_max) ==
    CDiv((x - in_min) * (out_max - out_min), in_max - in_min) + out_min

\* variants of speedPercentToPwm: a map() that rounds to nearest, no
\* constrain(), the output range handed to map() the wrong way round
speedPercentToPwm_Rounded(speedPercent) ==
    CDiv(2 * constrain(speedPercent, 0, PERCENT_MAX) * PWM_MAX + PERCENT_MAX,
         2 * PERCENT_MAX)

speedPercentToPwm_NoClamp(speedPercent) ==
    map(speedPercent, 0, PERCENT_MAX, 0, PWM_MAX)

speedPercentToPwm_Inverted(speedPercent) ==
    map(constrain(speedPercent, 0, PERCENT_MAX), 0, PERCENT_MAX, PWM_MAX, 0)

speedPercentToPwm(speedPercent) ==
    map(constrain(speedPercent, 0, PERCENT_MAX), 0, PERCENT_MAX, 0, PWM_MAX)

\* round(x) for x = num / den, den > 0: to nearest, ties away from zero
round(num, den) ==
    IF num >= 0 THEN (2 * num + den) \div (2 * den)
                ELSE -((2 * (-num) + den) \div (2 * den))

\* abs(x) on a rational
abs(x) == IF x[1] > 0 THEN x ELSE <<-x[1], x[2]>>

\* variant: the cast without round()
DriveRunTimeMs_Truncated(distance_cm) ==
    ULong(CDiv(distance_cm[1] * ms_per_cm, distance_cm[2]))

\* (unsigned long) round(distance_cm * ms_per_cm)
DriveRunTimeMs(distance_cm) ==
    ULong(round(distance_cm[1] * ms_per_cm, distance_cm[2]))

\* variant: abs() forgotten
RotateRunTimeMs_NoAbs(angle_deg) ==
    ULong(round(angle_deg[1] * ms_per_degree_num, angle_deg[2] * ms_per_degree_den))

\* (unsigned long) round(abs(angle_deg) * ms_per_degree)
RotateRunTimeMs(angle_deg) ==
    ULong(round(abs(angle_deg)[1] * ms_per_degree_num,
                abs(angle_deg)[2] * ms_per_degree_den))

\* variant: < for <= on the distance
DriveIsNoop_StrictDistance(distance_cm, speed_percent) ==
    distance_cm[1] < 0 \/ speed_percent <= 0

\* if (distance_cm <= 0.0 || speed_percent <= 0) return;
DriveIsNoop(distance_cm, speed_percent) ==
    distance_cm[1] <= 0 \/ speed_percent <= 0

\* variant: the speed is not looked at
RotateIsNoop_AngleOnly(angle_deg, speed_percent) ==
    angle_deg[1] = 0

\* if (angle_deg == 0 || speed_percent <= 0) return;
RotateIsNoop(angle_deg, speed_percent) ==
    angle_deg[1] = 0 \/ speed_percent <= 0

\* variant: millis() < start + runTimeMs, the comparison that a wrap breaks
StillWaiting_Absolute == ULongLess(clock, ULongAdd(start, runTimeMs[2]))

\* millis() - start < runTimeMs, in unsigned 32-bit arithmetic
StillWaiting == ULongLess(ULongSub(clock, start), runTimeMs)

-----------------------------------------------------------------------------
(* State after power-on, before setup() has run: nothing in the source has *)
(* written a direction line or a duty yet, so their levels are unknown.    *)

\* the parts of the state a specification does not use
DemoIdle == loopAt = "none" /\ issued = <<>> /\ idleTurns = 0
SonarIdle == trig = LOW /\ duration = 0 /\ distance = <<0, 1>> /\ report = "none"

Init ==
    /\ pc = "boot"
    /\ in1 \in {LOW, HIGH} /\ in2 \in {LOW, HIGH}
    /\ in3 \in {LOW, HIGH} /\ in4 \in {LOW, HIGH}
    /\ dutyL \in {0, PWM_MAX} /\ dutyR \in {0, PWM_MAX}
    /\ clock = ULong(0) /\ start = ULong(0) /\ runTimeMs = ULong(0) /\ pwmVal = 0
    /\ call = NoCall /\ writes = 0 /\ waited = 0
    /\ pctA = 0 /\ pctB = 0 /\ pwmA = 0 /\ pwmB = 0
    /\ DemoIdle /\ SonarIdle

\* what a call leaves untouched besides the motor outputs
Locals == <<start, runTimeMs, pwmVal, waited>>

\* a command returns to its caller: its locals are gone
Return ==
    /\ pc' = "returned"
    /\ start' = ULong(0) /\ runTimeMs' = ULong(0) /\ pwmVal' = 0 /\ waited' = 0

-----------------------------------------------------------------------------
(* setup() *)

\* pinMode, ledcSetup and ledcAttachPin write no level and no duty;
\* setup then calls stopMotors()
Setup ==
    /\ pc = "boot"
    /\ pc' = "stop_ledcL"
    /\ call' = [fn |-> "setup", mag |-> <<0, 1>>, speed |-> 0]
    /\ writes' = 0
    /\ UNCHANGED <<motorVars, clock, Locals, pwmFnVars>>

-----------------------------------------------------------------------------
(* stopMotors(), one step per write *)

\* variant: the left channel is left as it is
StopLedcLeft_Skipped ==
    /\ pc = "stop_ledcL"
    /\ pc' = "stop_ledcR"
    /\ writes' = writes + 1
    /\ UNCHANGED <<motorVars, clock, Locals, call, pwmFnVars>>

StopLedcLeft ==
    /\ pc = "stop_ledcL"
    /\ dutyL' = 0
    /\ pc' = "stop_ledcR"
    /\ writes' = writes + 1
    /\ UNCHANGED <<in1, in2, in3, in4, dutyR, clock, Locals, call, pwmFnVars>>

\* variant: the right channel is left as it is
StopLedcRight_Skipped ==
    /\ pc = "stop_ledcR"
    /\ pc' = "stop_in1"
    /\ writes' = writes + 1
    /\ UNCHANGED <<motorVars, clock, Locals, call, pwmFnVars>>

StopLedcRight ==
    /\ pc = "stop_ledcR"
    /\ dutyR' = 0
    /\ pc' = "stop_in1"
    /\ writes' = writes + 1
    /\ UNCHANGED <<in1, in2, in3, in4, dutyL, clock, Locals, call, pwmFnVars>>

\* variant: IN1 is driven HIGH (the brake wiring of the comment above stopMotors)
StopIn1_Brake ==
    /\ pc = "stop_in1"
    /\ in1' = HIGH
    /\ pc' = "stop_in2"
    /\ writes' = writes + 1
    /\ UNCHANGED <<in2, in3, in4, dutyL, dutyR, clock, Locals, call, pwmFnVars>>

StopIn1 ==
    /\ pc = "stop_in1"
    /\ in1' = LOW
    /\ pc' = "stop_in2"
    /\ writes' = writes + 1
    /\ UNCHANGED <<in2, in3, in4, dutyL, dutyR, clock, Locals, call, pwmFnVars>>

StopIn2 ==
    /\ pc = "stop_in2"
    /\ in2' = LOW
    /\ pc' = "stop_in3"
    /\ writes' = writes + 1
    /\ UNCHANGED <<in1, in3, in4, dutyL, dutyR, clock, Locals, call, pwmFnVars>>

StopIn3 ==
    /\ pc = "stop_in3"
    /\ in3' = LOW
    /\ pc' = "stop_in4"
    /\ writes' = writes + 1
    /\ UNCHANGED <<in1, in2, in4, dutyL, dutyR, clock, Locals, call, pwmFnVars>>

\* the last write of stopMotors; stopMotors returns, and so does the
\* function that called it (setup, driveForward, rotate: it is their last
\* statement)
StopIn4 ==
    /\ pc = "stop_in4"
    /\ in4' = LOW
    /\ writes' = writes + 1
    /\ Return
    /\ UNCHANGED <<in1, in2, in3, dutyL, dutyR, clock, call, pwmFnVars>>

-----------------------------------------------------------------------------
(* The caller: after setup, one command at a time *)

\* control is back in the caller, which goes on to its next command; any
\* time may pass before it (loop() waits delay(1000) between two commands)
CallerResumes(now) ==
    /\ pc = "returned"
    /\ pc' = "idle"
    /\ call' = NoCall
    /\ writes' = 0
    /\ clock' = now
    /\ UNCHANGED <<motorVars, Locals, pwmFnVars>>

CallDriveForward(distance_cm, speed_percent) ==
    /\ pc = "idle"
    /\ pc' = "drv_entry"
    /\ call' = [fn |-> "driveForward", mag |-> distance_cm, speed |-> speed_percent]
    /\ writes' = 0
    /\ UNCHANGED <<motorVars, clock, Locals, pwmFnVars>>

CallRotate(angle_deg, speed_percent) ==
    /\ pc = "idle"
    /\ pc' = "rot_entry"
    /\ call' = [fn |-> "rotate", mag |-> angle_deg, speed |-> speed_percent]
    /\ writes' = 0
    /\ UNCHANGED <<motorVars, clock, Locals, pwmFnVars>>

CallStopMotors ==
    /\ pc = "idle"
    /\ pc' = "stop_ledcL"
    /\ call' = [fn |-> "stopMotors", mag |-> <<0, 1>>, speed |-> 0]
    /\ writes' = 0
    /\ UNCHANGED <<motorVars, clock, Locals, pwmFnVars>>

-----------------------------------------------------------------------------
(* driveForward(distance_cm, speed_percent) *)

DriveNoop ==
    /\ pc = "drv_entry"
    /\ DriveIsNoop(call.mag, call.speed)
    /\ Return
    /\ UNCHANGED <<motorVars, clock, call, writes, pwmFnVars>>

DriveCompute ==
    /\ pc = "drv_entry"
    /\ ~DriveIsNoop(call.mag, call.speed)
    /\ runTimeMs' = DriveRunTimeMs(call.mag)
    /\ pc' = "drv_in1"
    /\ UNCHANGED <<motorVars, clock, start, pwmVal, waited, call, writes, pwmFnVars>>

DriveIn1 ==
    /\ pc = "drv_in1"
    /\ in1' = HIGH
    /\ pc' = "drv_in2"
    /\ writes' = writes + 1
    /\ UNCHANGED <<in2, in3, in4, dutyL, dutyR, clock, Locals, call, pwmFnVars>>

DriveIn2 ==
    /\ pc = "drv_in2"
    /\ in2' = LOW
    /\ pc' = "drv_in3"
    /\ writes' = writes + 1
    /\ UNCHANGED <<in1, in3, in4, dutyL, dutyR, clock, Locals, call, pwmFnVars>>

DriveIn3 ==
    /\ pc = "drv_in3"
    /\ in3' = HIGH
    /\ pc' = "drv_in4"
    /\ writes' = writes + 1
    /\ UNCHANGED <<in1, in2, in4, dutyL, dutyR, clock, Locals, call, pwmFnVars>>

DriveIn4 ==
    /\ pc = "drv_in4"
    /\ in4' = LOW
    /\ pc' = "drv_pwm"
    /\ writes' = writes + 1
    /\ UNCHANGED <<in1, in2, in3, dutyL, dutyR, clock, Locals, call, pwmFnVars>>

DrivePwmVal ==
    /\ pc = "drv_pwm"
    /\ pwmVal' = speedPercentToPwm(call.speed)
    /\ pc' = "drv_ledcL"
    /\ UNCHANGED <<motorVars, clock, start, runTimeMs, waited, call, writes, pwmFnVars>>

DriveLedcLeft ==
    /\ pc = "drv_ledcL"
    /\ dutyL' = pwmVal
    /\ pc' = "drv_ledcR"
    /\ writes' = writes + 1
    /\ UNCHANGED <<in1, in2, in3, in4, dutyR, clock, Locals, call, pwmFnVars>>

\* variant: the left channel is written a second time
DriveLedcRight_LeftAgain ==
    /\ pc = "drv_ledcR"
    /\ dutyL' = pwmVal
    /\ pc' = "drv_start"
    /\ writes' = writes + 1
    /\ UNCHANGED <<in1, in2, in3, in4, dutyR, clock, Locals, call, pwmFnVars>>

DriveLedcRight ==
    /\ pc = "drv_ledcR"
    /\ dutyR' = pwmVal
    /\ pc' = "drv_start"
    /\ writes' = writes + 1
    /\ UNCHANGED <<in1, in2, in3, in4, dutyL, clock, Locals, call, pwmFnVars>>

DriveStart ==
    /\ pc = "drv_start"
    /\ start' = clock
    /\ pc' = "drv_wait"
    /\ UNCHANGED <<motorVars, clock, runTimeMs, pwmVal, waited, call, writes, pwmFnVars>>

\* one turn of the polling loop: the condition holds, delay(5)
DrivePoll ==
    /\ pc = "drv_wait"
    /\ StillWaiting
    /\ clock' = ULongAdd(clock, PollDelayMs)
    /\ waited' = waited + PollDelayMs
    /\ UNCHANGED <<pc, motorVars, start, runTimeMs, pwmVal, call, writes, pwmFnVars>>

\* variant: the loop is left whatever the clock shows
DriveWaitDone_Unguarded ==
    /\ pc = "drv_wait"
    /\ pc' = "stop_ledcL"
    /\ UNCHANGED <<motorVars, clock, Locals, call, writes, pwmFnVars>>

\* the condition fails: the loop is left and stopMotors() is called
DriveWaitDone ==
    /\ pc = "drv_wait"
    /\ ~StillWaiting
    /\ pc' = "stop_ledcL"
    /\ UNCHANGED <<motorVars, clock, Locals, call, writes, pwmFnVars>>

-----------------------------------------------------------------------------
(* rotate(angle_deg, speed_percent) *)

RotateNoop ==
    /\ pc = "rot_entry"
    /\ RotateIsNoop(call.mag, call.speed)
    /\ Return
    /\ UNCHANGED <<motorVars, clock, call, writes, pwmFnVars>>

RotateCompute ==
    /\ pc = "rot_entry"
    /\ ~RotateIsNoop(call.mag, call.speed)
    /\ runTimeMs' = RotateRunTimeMs(call.mag)
    /\ pc' = "rot_pwm"
    /\ UNCHANGED <<motorVars, clock, start, pwmVal, waited, call, writes, pwmFnVars>>

RotatePwmVal ==
    /\ pc = "rot_pwm"
    /\ pwmVal' = speedPercentToPwm(call.speed)
    /\ pc' = "rot_in1"
    /\ UNCHANGED <<motorVars, clock, start, runTimeMs, waited, call, writes, pwmFnVars>>

\* variant: the branches the wrong way round
TurnRight_Flipped == call.mag[1] < 0

\* if (angle_deg > 0): turn right, else: turn left
TurnRight == call.mag[1] > 0

RotateIn1 ==
    /\ pc = "rot_in1"
    /\ in1' = IF TurnRight THEN HIGH ELSE LOW
    /\ pc' = "rot_in2"
    /\ writes' = writes + 1
    /\ UNCHANGED <<in2, in3, in4, dutyL, dutyR, clock, Locals, call, pwmFnVars>>

\* variant: IN2 is driven HIGH in both branches
RotateIn2_AlwaysHigh ==
    /\ pc = "rot_in2"
    /\ in2' = HIGH
    /\ pc' = "rot_in3"
    /\ writes' = writes + 1
    /\ UNCHANGED <<in1, in3, in4, dutyL, dutyR, clock, Locals, call, pwmFnVars>>

RotateIn2 ==
    /\ pc = "rot_in2"
    /\ in2' = IF TurnRight THEN LOW ELSE HIGH
    /\ pc' = "rot_in3"
    /\ writes' = writes + 1
    /\ UNCHANGED <<in1, in3, in4, dutyL, dutyR, clock, Locals, call, pwmFnVars>>

RotateIn3 ==
    /\ pc = "rot_in3"
    /\ in3' = IF TurnRight THEN LOW ELSE HIGH
    /\ pc' = "rot_in4"
    /\ writes' = writes + 1
    /\ UNCHANGED <<in1, in2, in4, dutyL, dutyR, clock, Locals, call, pwmFnVars>>

RotateIn4 ==
    /\ pc = "rot_in4"
    /\ in4' = IF TurnRight THEN HIGH ELSE LOW
    /\ pc' = "rot_ledcL"
    /\ writes' = writes + 1
    /\ UNCHANGED <<in1, in2, in3, dutyL, dutyR, clock, Locals, call, pwmFnVars>>

RotateLedcLeft ==
    /\ pc = "rot_ledcL"
    /\ dutyL' = pwmVal
    /\ pc' = "rot_ledcR"
    /\ writes' = writes + 1
    /\ UNCHANGED <<in1, in2, in3, in4, dutyR, clock, Locals, call, pwmFnVars>>

RotateLedcRight ==
    /\ pc = "rot_ledcR"
    /\ dutyR' = pwmVal
    /\ pc' = "rot_start"
    /\ writes' = writes + 1
    /\ UNCHANGED <<in1, in2, in3, in4, dutyL, clock, Locals, call, pwmFnVars>>

RotateStart ==
    /\ pc = "rot_start"
    /\ start' = clock
    /\ pc' = "rot_wait"
    /\ UNCHANGED <<motorVars, clock, runTimeMs, pwmVal, waited, call, writes, pwmFnVars>>

RotatePoll ==
    /\ pc = "rot_wait"
    /\ StillWaiting
    /\ clock' = ULongAdd(clock, PollDelayMs)
    /\ waited' = waited + PollDelayMs
    /\ UNCHANGED <<pc, motorVars, start, runTimeMs, pwmVal, call, writes, pwmFnVars>>

\* variant: rotate returns from the loop without stopMotors()
RotateWaitDone_SkipsStop ==
    /\ pc = "rot_wait"
    /\ ~StillWaiting
    /\ Return
    /\ UNCHANGED <<motorVars, clock, call, writes, pwmFnVars>>

RotateWaitDone ==
    /\ pc = "rot_wait"
    /\ ~StillWaiting
    /\ pc' = "stop_ledcL"
    /\ UNCHANGED <<motorVars, clock, Locals, call, writes, pwmFnVars>>

-----------------------------------------------------------------------------
(* The controller under any caller of its command-level API *)

Caller ==
    \/ pc = "returned" /\ \E t \in StartClocks : CallerResumes(t)
    \/ pc = "idle" /\ \E d \in DistArgs, s \in SpeedArgs : CallDriveForward(d, s)
    \/ pc = "idle" /\ \E a \in AngleArgs, s \in SpeedArgs : CallRotate(a, s)
    \/ CallStopMotors

StopMotors ==
    StopLedcLeft \/ StopLedcRight \/ StopIn1 \/ StopIn2 \/ StopIn3 \/ StopIn4

DriveForward ==
    \/ DriveNoop \/ DriveCompute
    \/ DriveIn1 \/ DriveIn2 \/ DriveIn3 \/ DriveIn4
    \/ DrivePwmVal \/ DriveLedcLeft \/ DriveLedcRight
    \/ DriveStart \/ DrivePoll \/ DriveWaitDone

\* rotate past its early return
RotateBody ==
    \/ RotateCompute \/ RotatePwmVal
    \/ RotateIn1 \/ RotateIn2 \/ RotateIn3 \/ RotateIn4
    \/ RotateLedcLeft \/ RotateLedcRight
    \/ RotateStart \/ RotatePoll \/ RotateWaitDone

Rotate == RotateNoop \/ RotateBody

Next == Setup \/ Caller \/ StopMotors \/ DriveForward \/ Rotate

Spec == Init /\ [][Next]_vars

\* The controller's own steps.  The thread runs on and the millisecond clock
\* keeps advancing, so a step of the code that can be taken is taken; the
\* caller is free never to call again.
Program == Setup \/ StopMotors \/ DriveForward \/ Rotate

LiveSpec == Spec /\ WF_vars(Program)

-----------------------------------------------------------------------------
(* speedPercentToPwm on its own, applied to two arguments *)

PercentArgs == (-MaxOver)..(PERCENT_MAX + MaxOver)

PwmInit ==
    /\ pc = "pwm_a"
    /\ pctA \in PercentArgs /\ pctB \in PercentArgs
    /\ pwmA = -1 /\ pwmB = -1
    /\ in1 = LOW /\ in2 = LOW /\ in3 = LOW /\ in4 = LOW
    /\ dutyL = 0 /\ dutyR = 0
    /\ clock = ULong(0) /\ start = ULong(0) /\ runTimeMs = ULong(0) /\ pwmVal = 0
    /\ call = NoCall /\ writes = 0 /\ waited = 0
    /\ DemoIdle /\ SonarIdle

PwmEvalA ==
    /\ pc = "pwm_a"
    /\ pwmA' = speedPercentToPwm(pctA)
    /\ pc' = "pwm_b"
    /\ UNCHANGED <<motorVars, clock, Locals, call, writes, pctA, pctB, pwmB, demoVars, sonarVars>>

PwmEvalB ==
    /\ pc = "pwm_b"
    /\ pwmB' = speedPercentToPwm(pctB)
    /\ pc' = "pwm_done"
    /\ UNCHANGED <<motorVars, clock, Locals, call, writes, pctA, pctB, pwmA, demoVars, sonarVars>>

PwmNext == PwmEvalA \/ PwmEvalB

PwmSpec == PwmInit /\ [][PwmNext]_vars

-----------------------------------------------------------------------------
(* The demo program: setup(), then loop() as it is written *)

RotateRightCall == [fn |-> "rotate", mag |-> <<90, 1>>, speed |-> 60]
RotateLeftCall == [fn |-> "rotate", mag |-> <<-90, 1>>, speed |-> 60]

DemoInit ==
    /\ pc = "boot"
    /\ in1 \in {LOW, HIGH} /\ in2 \in {LOW, HIGH}
    /\ in3 \in {LOW, HIGH} /\ in4 \in {LOW, HIGH}
    /\ dutyL \in {0, PWM_MAX} /\ dutyR \in {0, PWM_MAX}
    /\ clock = ULong(0) /\ start = ULong(0) /\ runTimeMs = ULong(0) /\ pwmVal = 0
    /\ call = NoCall /\ writes = 0 /\ waited = 0
    /\ pctA = 0 /\ pctB = 0 /\ pwmA = 0 /\ pwmB = 0
    /\ loopAt = "rotate_right" /\ issued = <<>> /\ idleTurns = 0
    /\ SonarIdle

\* loop() calls a command once the call before it (setup's stopMotors at
\* first) has returned
LoopCalls(cmd, next) ==
    /\ pc = "returned"
    /\ pc' = "rot_entry"
    /\ call' = cmd
    /\ writes' = 0
    /\ issued' = Append(issued, cmd)
    /\ loopAt' = next
    /\ UNCHANGED <<motorVars, clock, Locals, pctA, pctB, pwmA, pwmB, idleTurns, sonarVars>>

\* delay(1000)
LoopDelays(next) ==
    /\ pc = "returned"
    /\ clock' = ULongAdd(clock, LoopDelayMs)
    /\ loopAt' = next
    /\ UNCHANGED <<pc, motorVars, Locals, call, writes, pctA, pctB, pwmA, pwmB,
                   issued, idleTurns, sonarVars>>

\* rotate(90, 60);
LoopRotateRight == loopAt = "rotate_right" /\ LoopCalls(RotateRightCall, "delay_1")

\* delay(1000);
LoopDelay1 == loopAt = "delay_1" /\ LoopDelays("rotate_left")

\* variant: the first call copied, as the line printed before it was
LoopRotateLeft_RightAgain ==
    loopAt = "rotate_left" /\ LoopCalls(RotateRightCall, "delay_2")

\* rotate(-90, 60);
LoopRotateLeft == loopAt = "rotate_left" /\ LoopCalls(RotateLeftCall, "delay_2")

\* delay(1000);
LoopDelay2 == loopAt = "delay_2" /\ LoopDelays("forever")

\* while (true) { delay(1000); }
LoopForever ==
    /\ loopAt = "forever"
    /\ idleTurns < MaxIdleTurns
    /\ idleTurns' = idleTurns + 1
    /\ pc = "returned"
    /\ clock' = ULongAdd(clock, LoopDelayMs)
    /\ UNCHANGED <<pc, motorVars, Locals, call, writes, pctA, pctB, pwmA, pwmB,
                   loopAt, issued, sonarVars>>

Loop ==
    \/ LoopRotateRight \/ LoopDelay1 \/ LoopRotateLeft \/ LoopDelay2
    \/ LoopForever

\* rotate is never called with an argument that takes its early return
DemoNext == Setup \/ Loop \/ RotateBody \/ StopMotors

\* the thread runs on: a statement that can be executed is executed
DemoSpec == DemoInit /\ [][DemoNext]_vars /\ WF_vars(DemoNext)

-----------------------------------------------------------------------------
(* The ranging program of src/sonar.cpp: setup(), then loop() for ever *)

\* the motor outputs and the controller's state play no part in it
ControllerIdle ==
    /\ in1 = LOW /\ in2 = LOW /\ in3 = LOW /\ in4 = LOW
    /\ dutyL = 0 /\ dutyR = 0
    /\ clock = ULong(0) /\ start = ULong(0) /\ runTimeMs = ULong(0) /\ pwmVal = 0
    /\ call = NoCall /\ writes = 0 /\ waited = 0
    /\ pctA = 0 /\ pctB = 0 /\ pwmA = 0 /\ pwmB = 0
    /\ DemoIdle

controllerVars ==
    <<motorVars, clock, Locals, call, writes, pctA, pctB, pwmA, pwmB, demoVars>>

\* return -1.0
NO_ECHO == <<-1, 1>>

\* (duration * 0.0343f) / 2.0f, as the rational duration * 343 / 20000
EchoDistanceCm(us) == <<us * 343, 20000>>

\* variant: the test can never be true of what pulseIn returns
EchoTimedOut_Negative(us) == us < 0

\* if (duration == 0)
EchoTimedOut(us) == us = 0

\* if (d < 0) in loop()
IsNegative(x) == x[1] < 0

SonarInit ==
    /\ pc = "son_setup"
    /\ trig \in {LOW, HIGH}
    /\ duration = 0 /\ distance = <<0, 1>> /\ report = "none"
    /\ ControllerIdle

\* setup(): Serial.begin, setupUltrasonic(); then loop() calls measureDistanceCm()
SonarSetup ==
    /\ pc = "son_setup"
    /\ pc' = "son_trig_low"
    /\ UNCHANGED <<sonarVars, controllerVars>>

\* digitalWrite(TRIG_PIN, LOW); delayMicroseconds(2)
SonarTrigLow ==
    /\ pc = "son_trig_low"
    /\ trig' = LOW
    /\ pc' = "son_trig_high"
    /\ UNCHANGED <<duration, distance, report, controllerVars>>

\* digitalWrite(TRIG_PIN, HIGH); delayMicroseconds(10)
SonarTrigHigh ==
    /\ pc = "son_trig_high"
    /\ trig' = HIGH
    /\ pc' = "son_trig_end"
    /\ UNCHANGED <<duration, distance, report, controllerVars>>

\* digitalWrite(TRIG_PIN, LOW)
SonarTrigEnd ==
    /\ pc = "son_trig_end"
    /\ trig' = LOW
    /\ pc' = "son_pulse"
    /\ UNCHANGED <<duration, distance, report, controllerVars>>

\* long duration = pulseIn(ECHO_PIN, HIGH, 30000UL): the length of the echo
\* pulse in microseconds, 0 when none was complete within the timeout
SonarPulseIn(us) ==
    /\ pc = "son_pulse"
    /\ duration' = us
    /\ pc' = "son_check"
    /\ UNCHANGED <<trig, distance, report, controllerVars>>

\* if (duration == 0) return -1.0;
SonarNoEcho ==
    /\ pc = "son_check"
    /\ EchoTimedOut(duration)
    /\ distance' = NO_ECHO
    /\ pc' = "son_test"
    /\ UNCHANGED <<trig, duration, report, controllerVars>>

\* return (duration * 0.0343f) / 2.0f;
SonarEcho ==
    /\ pc = "son_check"
    /\ ~EchoTimedOut(duration)
    /\ distance' = EchoDistanceCm(duration)
    /\ pc' = "son_test"
    /\ UNCHANGED <<trig, duration, report, controllerVars>>

\* loop(): if (d < 0) Serial.println("No echo detected.")
SonarReportNoEcho ==
    /\ pc = "son_test"
    /\ IsNegative(distance)
    /\ report' = "no_echo"
    /\ pc' = "son_delay"
    /\ UNCHANGED <<trig, duration, distance, controllerVars>>

\* loop(): else Serial.print("Distance: ") ...
SonarReportDistance ==
    /\ pc = "son_test"
    /\ ~IsNegative(distance)
    /\ report' = "distance"
    /\ pc' = "son_delay"
    /\ UNCHANGED <<trig, duration, distance, controllerVars>>

\* delay(200); loop() returns and is called again
SonarDelay ==
    /\ pc = "son_delay"
    /\ duration' = 0 /\ distance' = <<0, 1>>
    /\ pc' = "son_trig_low"
    /\ UNCHANGED <<trig, report, controllerVars>>

SonarNext ==
    \/ SonarSetup \/ SonarTrigLow \/ SonarTrigHigh \/ SonarTrigEnd
    \/ pc = "son_pulse" /\ \E us \in 0..PULSE_TIMEOUT_US : SonarPulseIn(us)
    \/ SonarNoEcho \/ SonarEcho
    \/ SonarReportNoEcho \/ SonarReportDistance \/ SonarDelay

SonarSpec == SonarInit /\ [][SonarNext]_vars

-----------------------------------------------------------------------------
(* Vocabulary of the properties *)

\* the direction truth table of the L298N
LeftForward == in1 = HIGH /\ in2 = LOW
LeftBackward == in1 = LOW /\ in2 = HIGH
LeftCoast == in1 = LOW /\ in2 = LOW
RightForward == in3 = HIGH /\ in4 = LOW
RightBackward == in3 = LOW /\ in4 = HIGH
RightCoast == in3 = LOW /\ in4 = LOW

Stopped == dutyL = 0 /\ dutyR = 0 /\ LeftCoast /\ RightCoast

\* n is num / den (num >= 0, den > 0) rounded to nearest, ties upward
IsRounded(n, num, den) ==
    /\ 2 * den * n - den <= 2 * num
    /\ 2 * num < 2 * den * n + den

\* the unsigned long x holds num / den rounded to nearest, ties upward
HoldsRounded(x, num, den) ==
    \E n \in {num \div den, num \div den + 1} : IsRounded(n, num, den) /\ x = ULong(n)

\* n is num / den (num >= 0, den > 0) with the fraction dropped
IsTruncated(n, num, den) == den * n <= num /\ num < den * (n + 1)

\* the value of an unsigned long below 2^31
Ms(x) == x[1] * HALF + x[2]

InStopMotors == pc \in {"stop_ledcL", "stop_ledcR", "stop_in1", "stop_in2", "stop_in3", "stop_in4"}

\* setup() has returned
AfterSetup == pc # "boot" /\ (call.fn = "setup" => pc = "returned")

InWait == pc \in {"drv_wait", "rot_wait"}

Clamped(percent) ==
    IF percent < 0 THEN 0 ELSE IF percent > PERCENT_MAX THEN PERCENT_MAX ELSE percent

-----------------------------------------------------------------------------
(* Properties *)

C2_DriveNoopWritesNothing ==
    [][ /\ (call'.fn = "driveForward" /\ (call'.mag[1] <= 0 \/ call'.speed <= 0))
            => (UNCHANGED motorVars /\ writes' = 0)
        /\ (pc = "drv_entry" /\ (call.mag[1] <= 0 \/ call.speed <= 0))
            => pc' = "returned" ]_vars

\* C2 witness: driveForward(0, 50) has returned without a write
C2_Witness ==
    /\ pc = "returned" /\ call.fn = "driveForward"
    /\ call.mag = <<0, 1>> /\ call.speed = 50 /\ writes = 0

\* C3: a rotate call with angleDeg = 0 or speedPercent <= 0 returns at once,
\* and no step of it writes a direction line or a duty.
C3_RotateNoopWritesNothing ==
    [][ /\ (call'.fn = "rotate" /\ (call'.mag[1] = 0 \/ call'.speed <= 0))
            => (UNCHANGED motorVars /\ writes' = 0)
        /\ (pc = "rot_entry" /\ (call.mag[1] = 0 \/ call.speed <= 0))
            => pc' = "returned" ]_vars

\* C3 witness: rotate(45, 0) has returned without a write
C3_Witness ==
    /\ pc = "returned" /\ call.fn = "rotate"
    /\ call.mag = <<45, 1>> /\ call.speed = 0 /\ writes = 0

\* C4 as stated: the duty is percent (clamped to 0..100) * 255 / 100 rounded
\* to nearest, so that 50 percent gives 128 and 1 percent gives 3.
C4_DutyIsRounded ==
    pc = "pwm_done" => IsRounded(pwmA, Clamped(pctA) * PWM_MAX, PERCENT_MAX)

\* C4 amended: the duty is percent (clamped to 0..100) * 255 / 100 with the
\* fraction dropped, so that 50 percent gives 127 and 1 percent gives 2.
C4_DutyIsTruncated ==
    pc = "pwm_done" =>
        /\ IsTruncated(pwmA, Clamped(pctA) * PWM_MAX, PERCENT_MAX)
        /\ (pctA = 50 => pwmA = 127)
        /\ (pctA = 1 => pwmA = 2)

\* C4 witness: 50 percent has been converted to 127
C4_Witness == pc = "pwm_done" /\ pctA = 50 /\ pwmA = 127

\* C5: speedPercentToPwm of a negative percent is its value at 0, of a
\* percent above 100 its value at 100, and every result lies in 0..255.
C5_InputIsClamped ==
    pc = "pwm_done" =>
        /\ (pctA < 0 /\ pctB = 0) => pwmA = pwmB
        /\ (pctA > PERCENT_MAX /\ pctB = PERCENT_MAX) => pwmA = pwmB
        /\ pwmA \in 0..PWM_MAX

\* C5 witness: a percent above 100 and the percent 100 both gave 255
C5_Witness ==
    /\ pc = "pwm_done" /\ pctA > PERCENT_MAX /\ pctB = PERCENT_MAX
    /\ pwmA = PWM_MAX /\ pwmB = PWM_MAX

\* C6: for a <= b in 0..100, speedPercentToPwm(a) <= speedPercentToPwm(b).
C6_Monotonic ==
    (pc = "pwm_done" /\ 0 <= pctA /\ pctA <= pctB /\ pctB <= PERCENT_MAX)
        => pwmA <= pwmB

\* C6 witness: 49 and 50 percent converted, in order
C6_Witness == pc = "pwm_done" /\ pctA = 49 /\ pctB = 50 /\ pwmA < pwmB

\* C7: in the timed wait of rotate, a positive angle has the left motor
\* Forward and the right motor Backward, a negative angle the left motor
\* Backward and the right motor Forward, and both channels carry
\* speedPercentToPwm(speedPercent).
C7_RotateWaitOutputs ==
    pc = "rot_wait" =>
        /\ call.fn = "rotate" /\ call.speed > 0 /\ call.mag[1] # 0
        /\ call.mag[1] > 0 => (LeftForward /\ RightBackward)
        /\ call.mag[1] < 0 => (LeftBackward /\ RightForward)
        /\ dutyL = speedPercentToPwm(call.speed)
        /\ dutyR = speedPercentToPwm(call.speed)

\* C7 witness: rotate(90, 60) is waiting, left Forward, right Backward, duty 153
C7_Witness ==
    /\ pc = "rot_wait" /\ call.mag = <<90, 1>> /\ call.speed = 60
    /\ LeftForward /\ RightBackward /\ dutyL = 153 /\ dutyR = 153

\* C8: the run time of rotate(a, s) is |a| * 8.4 rounded to nearest, the
\* same as that of rotate(-a, s) (756 ms for 90 and for -90 degrees), while
\* the two calls drive the motors in swapped directions.
C8_RotateRunTimeIgnoresSign ==
    pc = "rot_wait" =>
        LET a == call.mag[1]
            mag == IF a < 0 THEN -a ELSE a
        IN  /\ HoldsRounded(runTimeMs, mag * ms_per_degree_num, ms_per_degree_den)
            /\ runTimeMs = RotateRunTimeMs(<<-a, 1>>)
            /\ (mag = 90 => runTimeMs = ULong(756))
            /\ (LeftForward /\ RightBackward) <=> a > 0
            /\ (LeftBackward /\ RightForward) <=> a < 0

\* C8 witness: rotate(-90, 60) is waiting with a run time of 756 ms
C8_Witness ==
    /\ pc = "rot_wait" /\ call.mag = <<-90, 1>> /\ call.speed = 60
    /\ runTimeMs = ULong(756) /\ LeftBackward /\ RightForward

\* C9: in the timed wait of driveForward both motors are Forward and both
\* channels carry speedPercentToPwm(speedPercent).
C9_DriveWaitOutputs ==
    pc = "drv_wait" =>
        /\ call.fn = "driveForward" /\ call.speed > 0 /\ call.mag[1] > 0
        /\ LeftForward /\ RightForward
        /\ dutyL = speedPercentToPwm(call.speed)
        /\ dutyR = speedPercentToPwm(call.speed)

\* C9 witness: driveForward(30, 50) is waiting, both Forward, both duties 127
C9_Witness ==
    /\ pc = "drv_wait" /\ call.mag = <<30, 1>> /\ call.speed = 50
    /\ LeftForward /\ RightForward /\ dutyL = 127 /\ dutyR = 127

\* C10: the run time of driveForward(d, s) is d * 80 rounded to nearest;
\* 2400 ms for d = 30.
C10_DriveRunTime ==
    pc = "drv_wait" =>
        /\ HoldsRounded(runTimeMs, call.mag[1] * ms_per_cm, call.mag[2])
        /\ (call.mag = <<30, 1>> => runTimeMs = ULong(2400))

\* C10 witness: driveForward(30, 60) is waiting with a run time of 2400 ms
C10_Witness ==
    /\ pc = "drv_wait" /\ call.mag = <<30, 1>> /\ call.speed = 60
    /\ runTimeMs = ULong(2400)

\* C11: while driveForward or rotate waits, the outputs stay as the command
\* set them (its six writes, none since), and stopMotors runs for the command
\* only once the clock shows at least runTimeMs milliseconds since start.
C11_EnergisedUntilElapsed ==
    /\ InWait =>
        /\ writes = 6
        /\ dutyL = pwmVal /\ dutyR = pwmVal /\ pwmVal > 0
        /\ ~LeftCoast /\ ~RightCoast
    /\ (InStopMotors /\ call.fn \in {"driveForward", "rotate"}) =>
        /\ ~ULongLess(ULongSub(clock, start), runTimeMs)
        /\ waited >= Ms(runTimeMs)

\* C11 witness: driveForward(30, 60) is half way through its 2400 ms, energised
C11_Witness ==
    /\ pc = "drv_wait" /\ call.mag = <<30, 1>> /\ call.speed = 60
    /\ waited = 1200 /\ dutyL = 153 /\ dutyR = 153 /\ LeftForward /\ RightForward

\* C12: a driveForward or rotate call that has started returns, with the
\* motors stopped; and a command that energised the motors has returned only
\* after the six writes of stopMotors (twelve writes in all), never before.
C12_CommandsComplete ==
    /\ (pc \in {"drv_entry", "rot_entry"}) ~> (pc = "returned" /\ Stopped)
    /\ [](InWait ~> InStopMotors)
    /\ []((pc = "returned" /\ call.fn \in {"driveForward", "rotate"})
            => (writes = 12 \/ writes = 0))

\* C12 witness: rotate(90, 60) has returned after all twelve writes
C12_Witness ==
    /\ pc = "returned" /\ call.fn = "rotate"
    /\ call.mag = <<90, 1>> /\ call.speed = 60 /\ writes = 12 /\ Stopped

\* C13: stopMotors ends with both duties 0 and IN1..IN4 LOW from any levels
\* and duties (setup calls it on the unknown power-on outputs), with its six
\* writes; called again on the stopped outputs, it changes nothing.
C13_StopMotorsIdempotent ==
    /\ (pc = "returned" /\ call.fn \in {"setup", "stopMotors"})
        => (Stopped /\ writes = 6)
    /\ call.fn = "stopMotors" => Stopped

\* C13 witness: a stopMotors call that followed setup's has returned
C13_Witness ==
    pc = "returned" /\ call.fn = "stopMotors" /\ writes = 6 /\ Stopped

\* C15: once setup has returned, in every state, between any two pin writes,
\* IN1 and IN2 are never both HIGH and IN3 and IN4 are never both HIGH.
C15_NeverBothHigh ==
    AfterSetup =>
        /\ ~(in1 = HIGH /\ in2 = HIGH)
        /\ ~(in3 = HIGH /\ in4 = HIGH)

\* C15 witness: rotate(90, 60) between its writes: left Forward, IN4 not yet written
C15_Witness ==
    /\ pc = "rot_in4" /\ call.mag = <<90, 1>> /\ call.speed = 60
    /\ LeftForward /\ RightCoast

\* C16: once setup has returned, in every state, a channel with a duty other
\* than 0 belongs to a motor that is Forward or Backward, never in Coast.
C16_DutyOnlyWhenDriven ==
    AfterSetup =>
        /\ dutyL # 0 => (LeftForward \/ LeftBackward)
        /\ dutyR # 0 => (RightForward \/ RightBackward)

\* C16 witness: stopMotors after driveForward(30, 50), the left duty zeroed,
\* the right still 127, no line deasserted yet
C16_Witness ==
    /\ pc = "stop_ledcR" /\ call.fn = "driveForward" /\ call.speed = 50
    /\ dutyL = 0 /\ dutyR = 127 /\ LeftForward /\ RightForward

\* C17: whatever millis() was at the start of the wait, also just before the
\* wrap, millis() - start is the time slept so far, and the command goes on
\* to stopMotors no earlier than runTimeMs and no later than runTimeMs + 5 ms
\* after start.
C17_WaitAcrossWrap ==
    /\ (InWait \/ (InStopMotors /\ call.fn \in {"driveForward", "rotate"}))
        => ULongSub(clock, start) = ULong(waited)
    /\ InWait => waited < Ms(runTimeMs) + PollDelayMs
    /\ (InStopMotors /\ call.fn \in {"driveForward", "rotate"}) =>
        /\ Ms(runTimeMs) <= waited
        /\ waited <= Ms(runTimeMs) + PollDelayMs

\* C17 witness: rotate(90, 60) started 7 ms before the wrap and left the loop
\* after 760 ms, with millis() at 753
C17_Witness ==
    /\ pc = "stop_ledcL" /\ call.mag = <<90, 1>> /\ call.fn = "rotate"
    /\ start = ULongSub(ULong(0), ULong(7)) /\ clock = ULong(753)
    /\ ULongLess(clock, start) /\ waited = 760

\* C14: measureDistanceCm returns -1.0 exactly when the measured duration is
\* 0, and a distance >= 0 for every duration > 0; so loop()'s test d < 0 is
\* true, and "No echo detected." is printed, exactly for a reading that
\* timed out.
C14_SentinelOnlyOnTimeout ==
    /\ pc \in {"son_test", "son_delay"} =>
        /\ distance = NO_ECHO <=> duration = 0
        /\ duration > 0 => (distance[1] >= 0 /\ distance[2] > 0)
        /\ distance[1] < 0 <=> duration = 0
    /\ pc = "son_delay" => (report = "no_echo" <=> duration = 0)

\* C14 witness: a reading timed out, -1.0 came back and loop() reported no echo
C14_Witness ==
    pc = "son_delay" /\ duration = 0 /\ distance = NO_ECHO /\ report = "no_echo"

\* C18: the demo calls rotate(90, 60) and then rotate(-90, 60) and nothing
\* else; each call starts with the motors stopped (setup, or the call
\* before, has returned and left them stopped); and in the end loop() is in
\* its closing while (true) for ever, both calls made, duties 0, all lines LOW.
C18_DemoRunsTwoRotations ==
    /\ [](issued \in {<<>>, <<RotateRightCall>>, <<RotateRightCall, RotateLeftCall>>})
    /\ [](pc \in {"returned", "rot_entry"} => Stopped)
    /\ []((loopAt \in {"delay_1", "rotate_left"}) => issued = <<RotateRightCall>>)
    /\ [](loopAt = "forever" => issued = <<RotateRightCall, RotateLeftCall>>)
    /\ <>[](loopAt = "forever" /\ pc = "returned" /\ Stopped
            /\ issued = <<RotateRightCall, RotateLeftCall>>)

\* C18 witness: both rotations made, loop() two turns into its while (true)
C18_Witness ==
    /\ loopAt = "forever" /\ idleTurns = 2 /\ pc = "returned"
    /\ issued = <<RotateRightCall, RotateLeftCall>> /\ Stopped

====
